---- MODULE Spec2Model ----
(***************************************************************************)
(* Model of the symlink reconciliation engine of the dotfiles installer:   *)
(* SymlinkManager.create_symlink and the batch loops around it             *)
(* (src/src/installer/symlinker.py).                                       *)
(*                                                                         *)
(* The filesystem is a map from destination-side paths to nodes.  A path   *)
(* is a file name plus the number of ".bak" suffixes appended to it, so    *)
(* that the backup path is computed from the destination as the code does. *)
(* A symlink stores its target as written (a spelling and the entity the   *)
(* spelling denotes); readlink returns the stored spelling, resolve()      *)
(* returns the canonical spelling.                                         *)
(***************************************************************************)
EXTENDS Integers, Sequences, FiniteSets, TLC

VARIABLES fs, srcExists, config_dir, sub_dir, pc, fn, calls, last, prev, idx,
          all_successful, attempts, result, ran, exit_code

vars == <<fs, srcExists, config_dir, sub_dir, pc, fn, calls, last, prev, idx,
          all_successful, attempts, result, ran, exit_code>>

\* ---------------------------------------------------------------- bounds
MaxCalls == 2          \* direct create_symlink calls in one behaviour
MaxEntries == 2        \* entries of a directory found at a destination

\* ------------------------------------------------------------- mappings
files_to_symlink == <<"zshrc", "gitconfig", "vimrc">>

Files == {files_to_symlink[i] : i \in 1..Len(files_to_symlink)}

\* a directory outside the destinations that a symlink can point to
other_dir == [base |-> "otherdir", baks |-> 0]

\* destination, destination.bak, destination.bak.bak
Paths == [base : Files, baks : 0..2] \cup {other_dir}

\* the entries of the list given to setup_config_symlinks that name a file
\* inside a subdirectory of ~/.config (sub/file)
config_nested == {files_to_symlink[3]}

\* the parent directory of the destination does not exist: config_dir is
\* created by setup_config_symlinks, the subdirectory of a nested entry is not
parent_missing(destination) ==
    fn = "config" /\ destination.base \in config_nested /\ ~sub_dir

dest_path(file) == [base |-> file, baks |-> 0]

\* destination.with_name(destination.name + '.bak')
with_bak(p) == [base |-> p.base, baks |-> p.baks + 1]

\* ---------------------------------------------------------- path values
\* A path outside the destination area: how it is spelled and what it denotes.
Forms == {"abs", "rel", "via"}
NoTarget == [form |-> "none", to |-> "none"]
Target(form, to) == [form |-> form, to |-> to]

\* src_file = source_dir / file, spelled as the caller spells dotfiles_dir
src_file(form, file) == Target(form, file)

resolve_identity(p) == p

\* Path.resolve(): the canonical absolute spelling of the same entity
resolve(p) == Target("abs", p.to)

\* does the entity a path denotes exist / is it a directory (follows links)
TargetExists(t) ==
    IF t.to \in Files THEN srcExists[t.to] ELSE t.to \in {"otherfile", "otherdir"}

TargetIsDir(t) == t.to = "otherdir"

\* ---------------------------------------------------------------- nodes
Absent == [kind |-> "absent", tgt |-> NoTarget, id |-> 0, ents |-> {}]
File(c) == [kind |-> "file", tgt |-> NoTarget, id |-> c, ents |-> {}]
Dir(es) == [kind |-> "dir", tgt |-> NoTarget, id |-> 0, ents |-> es]
Link(t) == [kind |-> "link", tgt |-> t, id |-> 0, ents |-> {}]

\* Path.is_symlink(), Path.exists(), Path.is_dir(), Path.readlink()
is_symlink(f, p) == f[p].kind = "link"

exists(f, p) ==
    \/ f[p].kind \in {"file", "dir"}
    \/ f[p].kind = "link" /\ TargetExists(f[p].tgt)

is_dir(f, p) ==
    \/ f[p].kind = "dir"
    \/ f[p].kind = "link" /\ TargetIsDir(f[p].tgt)

readlink(f, p) == f[p].tgt

\* os.rename(a, b): fails when a is missing, when b is a directory and a is
\* not, and when a is a directory and b is anything but an empty directory
rename_fails(f, a, b) ==
    \/ f[a].kind = "absent"
    \/ f[b].kind = "dir" /\ f[a].kind # "dir"
    \/ f[a].kind = "dir" /\ f[b].kind = "dir" /\ f[b].ents # {}
    \/ f[a].kind = "dir" /\ f[b].kind \in {"file", "link"}

rename(f, a, b) == [f EXCEPT ![b] = f[a], ![a] = Absent]

\* Path.unlink()
unlink(f, p) == [f EXCEPT ![p] = Absent]

\* shutil.rmtree(p) that completes
rmtree(f, p) == [f EXCEPT ![p] = Absent]

\* shutil.rmtree(p) that raises part-way: the entries in left survive
rmtree_partial(f, p, left) == [f EXCEPT ![p] = Dir(f[p].ents \cap left)]

\* ------------------------------------------------------- create_symlink
\* Names of the filesystem operations of create_symlink that the
\* environment can make fail (permissions, locked file, full disk).
Ops == {"rotate", "rename", "remove", "symlink", "restore"}

\* The operations run in sequence and the first failure before the link
\* ends the call, so every subset of Ops behaves as one of these: nothing
\* fails, one clearing operation fails, the link fails, or the link and
\* the restore fail.  left is what a failing rmtree leaves behind.
Scenarios ==
    {[faults |-> {}, left |-> {}]}
    \cup {[faults |-> {o}, left |-> l] :
             o \in {"rotate", "remove"}, l \in SUBSET (1..MaxEntries)}
    \cup {[faults |-> {"rename"}, left |-> {}],
          [faults |-> {"symlink"}, left |-> {}],
          [faults |-> {"symlink", "restore"}, left |-> {}]}

source_missing_unchecked(source) == FALSE

\* step 1: the resolved source must exist
source_missing(source) == ~TargetExists(source)

already_correct_str(f, destination, source) ==
    is_symlink(f, destination) /\ readlink(f, destination) = Link(source)

\* step 2: the destination is a symlink whose stored target is the source
already_correct(f, destination, source) ==
    is_symlink(f, destination) /\ readlink(f, destination) = source

rotate_backup_shift(f, backup_path, faults, left) ==
    IF exists(f, backup_path) \/ is_symlink(f, backup_path)
    THEN IF "rotate" \in faults
         THEN [fs |-> f, ok |-> FALSE]
         ELSE [fs |-> rename(f, backup_path, with_bak(backup_path)), ok |-> TRUE]
    ELSE [fs |-> f, ok |-> TRUE]

rotate_backup_keep(f, backup_path, faults, left) ==
    IF "rotate" \in faults /\ f[backup_path].kind # "absent"
    THEN [fs |-> f, ok |-> FALSE]
    ELSE [fs |-> f, ok |-> TRUE]

\* clean up the old backup if it exists
rotate_backup(f, backup_path, faults, left) ==
    IF exists(f, backup_path) \/ is_symlink(f, backup_path)
    THEN IF is_dir(f, backup_path) /\ ~is_symlink(f, backup_path)
         THEN IF "rotate" \in faults
              THEN [fs |-> rmtree_partial(f, backup_path, left), ok |-> FALSE]
              ELSE [fs |-> rmtree(f, backup_path), ok |-> TRUE]
         ELSE IF "rotate" \in faults
              THEN [fs |-> f, ok |-> FALSE]
              ELSE [fs |-> unlink(f, backup_path), ok |-> TRUE]
    ELSE [fs |-> f, ok |-> TRUE]

remove_destination_follow(f, destination, faults, left) ==
    IF is_dir(f, destination)
    THEN IF "remove" \in faults
         THEN [fs |-> f, ok |-> FALSE]
         ELSE [fs |-> [f EXCEPT ![destination] = Absent,
                                ![other_dir] = IF is_symlink(f, destination)
                                               THEN Dir({}) ELSE @],
               ok |-> TRUE]
    ELSE IF "remove" \in faults
         THEN [fs |-> f, ok |-> FALSE]
         ELSE [fs |-> unlink(f, destination), ok |-> TRUE]

\* no backup: remove the existing item
remove_destination(f, destination, faults, left) ==
    IF is_dir(f, destination) /\ ~is_symlink(f, destination)
    THEN IF "remove" \in faults
         THEN [fs |-> rmtree_partial(f, destination, left), ok |-> FALSE]
         ELSE [fs |-> rmtree(f, destination), ok |-> TRUE]
    ELSE IF "remove" \in faults
         THEN [fs |-> f, ok |-> FALSE]
         ELSE [fs |-> unlink(f, destination), ok |-> TRUE]

\* step 3: handle any existing destination
clear_destination(f, destination, backup, faults, left) ==
    IF exists(f, destination) \/ is_symlink(f, destination)
    THEN IF backup
         THEN LET backup_path == with_bak(destination)
                  rot == rotate_backup(f, backup_path, faults, left)
              IN  IF ~rot.ok
                  THEN [fs |-> rot.fs, ok |-> FALSE, failed |-> {"rotate"},
                        reports |-> <<"error", "error">>]
                  ELSE IF "rename" \in faults
                          \/ rename_fails(rot.fs, destination, backup_path)
                  THEN [fs |-> rot.fs, ok |-> FALSE, failed |-> {"rename"},
                        reports |-> <<"error", "error">>]
                  ELSE [fs |-> rename(rot.fs, destination, backup_path),
                        ok |-> TRUE, failed |-> {},
                        reports |-> <<"success">>]
         ELSE LET rem == remove_destination(f, destination, faults, left)
              IN  IF ~rem.ok
                  THEN [fs |-> rem.fs, ok |-> FALSE, failed |-> {"remove"},
                        reports |-> <<"error", "error">>]
                  ELSE [fs |-> rem.fs, ok |-> TRUE, failed |-> {},
                        reports |-> <<>>]
    ELSE [fs |-> f, ok |-> TRUE, failed |-> {}, reports |-> <<>>]

\* destination.symlink_to(source)
symlink_fails(f, destination, faults) ==
    \/ "symlink" \in faults
    \/ f[destination].kind # "absent"
    \/ parent_missing(destination)

symlink_to_relative(f, destination, source) ==
    [f EXCEPT ![destination] = Link(Target("rel", source.to))]

symlink_to(f, destination, source) == [f EXCEPT ![destination] = Link(source)]

\* the restore of the backup is attempted when backup_path.exists()
restore_attempted(f, backup, backup_path) == backup /\ exists(f, backup_path)

link_or_restore_optimistic(f, destination, source, backup, faults) ==
    IF ~symlink_fails(f, destination, faults)
    THEN [fs |-> symlink_to(f, destination, source), ret |-> "True",
          path |-> "created", reports |-> <<"success">>,
          failed |-> {}, restored |-> FALSE]
    ELSE [fs |-> f, ret |-> "True", path |-> "link_failed",
          reports |-> <<"error">>,
          failed |-> {"symlink"}, restored |-> FALSE]

\* step 4: create the new symlink, restoring the backup if that fails
link_or_restore(f, destination, source, backup, faults) ==
    IF ~symlink_fails(f, destination, faults)
    THEN [fs |-> symlink_to(f, destination, source), ret |-> "True",
          path |-> "created", reports |-> <<"success">>,
          failed |-> {}, restored |-> FALSE]
    ELSE LET backup_path == with_bak(destination)
         IN  IF restore_attempted(f, backup, backup_path)
             THEN IF "restore" \in faults
                     \/ rename_fails(f, backup_path, destination)
                  THEN [fs |-> f, ret |-> "raise", path |-> "link_failed",
                        reports |-> <<"error", "info">>,
                        failed |-> {"symlink", "restore"}, restored |-> FALSE]
                  ELSE [fs |-> rename(f, backup_path, destination),
                        ret |-> "False", path |-> "link_failed",
                        reports |-> <<"error", "info">>,
                        failed |-> {"symlink"}, restored |-> TRUE]
             ELSE [fs |-> f, ret |-> "False", path |-> "link_failed",
                   reports |-> <<"error">>,
                   failed |-> {"symlink"}, restored |-> FALSE]

\* create_symlink(source, destination, backup): the filesystem afterwards,
\* what the call returned ("True", "False", or "raise" when an exception
\* left the method), the branch it took, and the printer calls it made.
create_symlink(f, src, destination, backup, faults, left) ==
    LET source == resolve(src)
    IN  IF source_missing(source)
        THEN [fs |-> f, ret |-> "False", path |-> "source_missing",
              reports |-> <<"error">>, failed |-> {}, restored |-> FALSE]
        ELSE IF already_correct(f, destination, source)
        THEN [fs |-> f, ret |-> "True", path |-> "already",
              reports |-> <<"success">>, failed |-> {}, restored |-> FALSE]
        ELSE LET clr == clear_destination(f, destination, backup, faults, left)
             IN  IF ~clr.ok
                 THEN [fs |-> clr.fs, ret |-> "False", path |-> "not_clear",
                       reports |-> clr.reports, failed |-> clr.failed,
                       restored |-> FALSE]
                 ELSE LET lnk == link_or_restore(clr.fs, destination, source,
                                                 backup, faults)
                      IN  [lnk EXCEPT !.reports = clr.reports \o @]

\* ------------------------------------------------------- call records
\* The three slots of a destination as a call found them.
Slots(f, file) ==
    [dst |-> f[dest_path(file)],
     bak |-> f[with_bak(dest_path(file))],
     bakbak |-> f[with_bak(with_bak(dest_path(file)))]]

NoCall ==
    [file |-> "none", backup |-> FALSE, prompted |-> FALSE,
     pre |-> [dst |-> Absent, bak |-> Absent, bakbak |-> Absent],
     ret |-> "none", path |-> "none", reports |-> <<>>, failed |-> {},
     restored |-> FALSE, clean |-> FALSE]

\* clean: the environment made no operation of the call fail
CallRecord(file, backup, prompted, batch_reports, r) ==
    [file |-> file, backup |-> backup, prompted |-> prompted,
     pre |-> Slots(fs, file),
     ret |-> r.ret, path |-> r.path, reports |-> batch_reports \o r.reports,
     failed |-> r.failed, restored |-> r.restored, clean |-> FALSE]

\* -------------------------------------------------------- direct calls
\* A caller invokes create_symlink(source, destination, backup) directly,
\* as setup_git_log_script does.
Call(file, form, backup, faults, left) ==
    /\ pc = "idle"
    /\ calls < MaxCalls
    /\ \E r \in {create_symlink(fs, src_file(form, file), dest_path(file),
                                 backup, faults, left)} :
           /\ fs' = r.fs
           /\ last' = [CallRecord(file, backup, FALSE, <<>>, r)
                          EXCEPT !.clean = (faults = {})]
           /\ pc' = IF r.ret = "raise" THEN "raised" ELSE "idle"
    /\ prev' = last
    /\ calls' = calls + 1
    /\ UNCHANGED <<srcExists, config_dir, sub_dir, fn, idx, all_successful,
                   attempts, result, ran, exit_code>>

\* ---------------------------------------------------------- batch loops
\* input(...).strip().lower()
Texts == {"y", " Yes ", "n", ""}

\* what input() gives: a line of text, or EOFError
Answers == {[eof |-> TRUE, text |-> ""]} \cup [eof : {FALSE}, text : Texts]

\* how a caller may spell the source path
SrcForms == {"abs", "rel"}

\* the mapping a direct caller reconciles
DirectFiles == {files_to_symlink[1]}

strip_lower(text) ==
    CASE text = " Yes " -> "yes"
      [] OTHER -> text

\* setup_dotfiles_symlinks / setup_config_symlinks up to the loop
BatchStart(which) ==
    /\ pc = IF which = "dotfiles" THEN "main" ELSE "ready"
    /\ fn' = which
    /\ config_dir' = IF which = "config" THEN TRUE ELSE config_dir
    /\ all_successful' = TRUE
    /\ idx' = 1
    /\ pc' = "loop"
    /\ UNCHANGED <<fs, srcExists, sub_dir, calls, last, prev, attempts, result,
                   ran, exit_code>>

\* the early check of the loop body: the link is already correct, continue
loop_skips(f, dest, src) ==
    is_symlink(f, dest) /\ readlink(f, dest) = resolve(src)

loop_prompts_exists_only(f, dest) == exists(f, dest)

\* the prompt is issued when something is at the destination
loop_prompts(f, dest) == exists(f, dest) \/ is_symlink(f, dest)

create_backup_choice_no_default(prompts, eof, text) ==
    IF prompts
    THEN IF eof THEN FALSE ELSE strip_lower(text) \in {"y", "yes"}
    ELSE TRUE

\* create_backup after the prompt
create_backup_choice(prompts, eof, text) ==
    IF prompts
    THEN IF eof THEN TRUE ELSE strip_lower(text) \in {"y", "yes"}
    ELSE TRUE

\* one iteration of the for loop; the last one also returns all_successful
BatchStep(form, eof, text, faults, left) ==
    /\ pc = "loop"
    /\ idx <= Len(files_to_symlink)
    /\ LET file == files_to_symlink[idx]
           src == src_file(form, file)
           dest == dest_path(file)
           final == idx = Len(files_to_symlink)
       IN  /\ idx' = idx + 1
           /\ prev' = last
           /\ IF loop_skips(fs, dest, src)
              THEN /\ last' = [NoCall EXCEPT !.file = file,
                                             !.pre = Slots(fs, file),
                                             !.ret = "continue",
                                             !.path = "skipped",
                                             !.reports = <<"success">>]
                   /\ fs' = fs
                   /\ attempts' = Append(attempts, [file |-> file, ret |-> "continue"])
                   /\ all_successful' = all_successful
                   /\ pc' = IF final THEN "returned" ELSE "loop"
                   /\ result' = IF final
                                THEN (IF all_successful THEN "True" ELSE "False")
                                ELSE result
              ELSE LET prompts == loop_prompts(fs, dest)
                       create_backup == create_backup_choice(prompts, eof, text)
                       warn == IF prompts /\ eof THEN <<"warning">> ELSE <<>>
                   IN  \E r \in {create_symlink(fs, src, dest, create_backup,
                                                faults, left)} :
                       LET ok == all_successful /\ r.ret = "True" IN
                       /\ last' = [CallRecord(file, create_backup, prompts,
                                              warn, r)
                                      EXCEPT !.clean = (faults = {})]
                       /\ fs' = r.fs
                       /\ attempts' = Append(attempts, [file |-> file, ret |-> r.ret])
                       /\ all_successful' = ok
                       /\ pc' = IF r.ret = "raise" THEN "raised"
                                ELSE IF final THEN "returned" ELSE "loop"
                       /\ result' = IF final /\ r.ret # "raise"
                                    THEN (IF ok THEN "True" ELSE "False")
                                    ELSE result
    /\ UNCHANGED <<srcExists, config_dir, sub_dir, fn, calls, ran, exit_code>>

\* ------------------------------------------------------------ main, run
\* the steps of DotfilesInstaller.run, in order
run_steps ==
    <<"is_zsh", "get_user_information", "install_system_dependencies",
      "install_homebrew_packages", "setup_configuration_files",
      "create_zshrc_local", "complete_installation">>

ConfigStep == 5

\* exit_code while main has not returned
NotExited == -1

\* what a step gives run: it returns True or False, raises, or (os.execv in
\* complete_installation) replaces the process so that nothing returns
StepOutcomes(step) ==
    CASE step = "get_user_information" -> {"True", "raise"}
      [] step = "create_zshrc_local" -> {"True"}
      [] step = "complete_installation" -> {"exec", "raise"}
      [] OTHER -> {"True", "False", "raise"}

\* run returns False at the first step that returns False, propagates the
\* first exception, and returns True after the last step returned True
run_outcome(outs) ==
    IF \E i \in 1..Len(outs) : outs[i] # "True"
    THEN outs[CHOOSE i \in 1..Len(outs) :
                 outs[i] # "True" /\ \A j \in 1..(i - 1) : outs[j] = "True"]
    ELSE IF Len(outs) = Len(run_steps) THEN "True" ELSE "running"

main_exit_zero(outcome) == 0

\* main: return 0 if success else 1; except Exception: return 1
main_exit(outcome) == IF outcome = "True" THEN 0 ELSE 1

\* what main does once run has stopped with the given step outcomes
Finish(outs) ==
    LET outcome == run_outcome(outs)
    IN  /\ ran' = outs
        /\ exit_code' = IF outcome = "exec" THEN NotExited ELSE main_exit(outcome)
        /\ pc' = IF outcome = "exec" THEN "replaced" ELSE "exited"

\* true outcomes of the first n steps
Trues(n) == [i \in 1..n |-> "True"]

\* main up to setup_configuration_files: step k is the first that does not
\* return True (k = ConfigStep: all of them did)
MainStart(k, o) ==
    /\ pc = "ready"
    /\ k \in 1..ConfigStep
    /\ IF k = ConfigStep
       THEN /\ o = "True"
            /\ ran' = Trues(ConfigStep - 1)
            /\ pc' = "main"
            /\ exit_code' = exit_code
       ELSE /\ o \in StepOutcomes(run_steps[k]) \ {"True"}
            /\ Finish(Append(Trues(k - 1), o))
    /\ UNCHANGED <<fs, srcExists, config_dir, sub_dir, fn, calls, last, prev,
                   idx, all_successful, attempts, result>>

\* setup_configuration_files: False when the batch returned False, the
\* batch's exception when it raised, else what setup_git_log_script gives
configuration_outcome(git) ==
    IF pc = "raised" THEN "raise"
    ELSE IF result = "False" THEN "False"
    ELSE git

\* main from the end of the dotfiles batch to its return
MainFinish(git, exec) ==
    /\ pc \in {"returned", "raised"}
    /\ fn = "dotfiles"
    /\ git \in StepOutcomes("setup_git_log_script")
    /\ exec \in StepOutcomes("complete_installation")
    /\ LET cfg == configuration_outcome(git)
       IN  Finish(ran \o (IF cfg = "True" THEN <<cfg, "True", exec>>
                          ELSE <<cfg>>))
    /\ UNCHANGED <<fs, srcExists, config_dir, sub_dir, fn, calls, last, prev,
                   idx, all_successful, attempts, result>>

\* ----------------------------------------------------------------- Init
\* what a direct call can find at the destination and in its backup slot
DstInit(file) ==
    {Absent, File(1), Dir({}), Dir(1..MaxEntries),
     Link(Target("abs", file)), Link(Target("rel", file)),
     Link(Target("via", file)), Link(Target("abs", "otherfile")),
     Link(Target("abs", "otherdir")), Link(Target("abs", "gone"))}

BakInit ==
    {Absent, File(2), Dir(1..MaxEntries),
     Link(Target("abs", "otherdir")), Link(Target("abs", "gone"))}

\* what a batch run finds at each destination
BatchDstInit(file) ==
    {Absent, File(1), Link(Target("abs", file)), Link(Target("abs", "gone"))}
    \cup (IF file = files_to_symlink[1]
          THEN {Link(Target("abs", "otherfile"))} ELSE {})
    \cup (IF file = files_to_symlink[2] THEN {Dir(1..MaxEntries)} ELSE {})

InitControl ==
    /\ calls = 0
    /\ last = NoCall
    /\ prev = NoCall
    /\ idx = 0
    /\ all_successful = TRUE
    /\ attempts = <<>>
    /\ result = "none"
    /\ fn = "none"
    /\ ran = <<>>
    /\ exit_code = NotExited

\* a caller about to reconcile the first mapping directly
InitReconcile ==
    /\ pc = "idle"
    /\ config_dir = TRUE
    /\ sub_dir = TRUE
    /\ \E d \in DstInit(files_to_symlink[1]), b \in BakInit :
          fs = [p \in Paths |->
                  IF p = other_dir THEN Dir(1..MaxEntries)
                  ELSE IF p.base # files_to_symlink[1] THEN Absent
                  ELSE IF p.baks = 0 THEN d
                  ELSE IF p.baks = 1 THEN b
                  ELSE Absent]
    /\ \E e \in BOOLEAN :
          srcExists = [f \in Files |-> IF f = files_to_symlink[1] THEN e ELSE TRUE]
    /\ InitControl

\* a batch about to run over files_to_symlink
InitBatch ==
    /\ pc = "ready"
    /\ \E c \in BOOLEAN, sub \in BOOLEAN :
          /\ config_dir = c
          /\ sub_dir = sub
          /\ sub => c
          /\ \E ds \in [Files -> BatchDstInit("zshrc") \cup BatchDstInit("gitconfig")
                                 \cup BatchDstInit("vimrc")] :
                /\ \A f \in Files : ds[f] \in BatchDstInit(f)
                /\ c = FALSE => \A f \in Files : ds[f] = Absent
                /\ sub = FALSE => \A f \in config_nested : ds[f] = Absent
                /\ fs = [p \in Paths |->
                           IF p = other_dir THEN Dir(1..MaxEntries)
                           ELSE IF p.baks = 0 THEN ds[p.base] ELSE Absent]
    /\ \E e \in BOOLEAN :
          srcExists = [f \in Files |-> IF f = files_to_symlink[2] THEN e ELSE TRUE]
    /\ InitControl

Init == InitReconcile \/ InitBatch

Next ==
    \/ \E file \in DirectFiles, form \in SrcForms, backup \in BOOLEAN,
          sc \in Scenarios :
          Call(file, form, backup, sc.faults, sc.left)
    \/ \E which \in {"dotfiles", "config"} : BatchStart(which)
    \/ \E form \in SrcForms, ans \in Answers, sc \in Scenarios :
          BatchStep(form, ans.eof, ans.text, sc.faults, sc.left)
    \/ \E k \in 1..ConfigStep, o \in {"True", "False", "raise"} : MainStart(k, o)
    \/ \E git \in {"True", "False", "raise"}, exec \in {"exec", "raise"} :
          MainFinish(git, exec)

Spec == Init /\ [][Next]_vars

TypeOK ==
    /\ pc \in {"idle", "ready", "main", "loop", "returned", "raised", "exited",
              "replaced"}
    /\ exit_code \in {NotExited, 0, 1}
    /\ fn \in {"none", "dotfiles", "config"}
    /\ calls \in 0..(MaxCalls + 1)
    /\ result \in {"none", "True", "False"}
    /\ last.ret \in {"none", "True", "False", "raise", "continue"}

\* ------------------------------------------------------------ properties
\* the canonical source of a mapping, and the slots of the last call now
Canon(file) == resolve(src_file("rel", file))

IsCall(c) == c.path \notin {"none", "skipped"}

Now(c) == Slots(fs, c.file)

\* C1 Idempotence: when the source exists and the destination is anything
\* but an already-correct link, two consecutive fault-free create_symlink
\* calls on the mapping both return True, the first creates the link, the
\* second takes the already-correct branch and leaves destination and
\* backup slots exactly as the first call left them.
C1_Idempotence ==
    ( /\ IsCall(prev) /\ IsCall(last) /\ prev.file = last.file
      /\ srcExists[last.file]
      /\ prev.failed = {} /\ last.failed = {}
      /\ prev.pre.dst # Link(Canon(prev.file)) )
    => /\ prev.ret = "True" /\ prev.path = "created"
       /\ last.pre.dst = Link(Canon(last.file))
       /\ last.ret = "True" /\ last.path = "already"
       /\ Now(last) = last.pre

C1_Witness ==
    /\ prev.path = "created" /\ prev.backup /\ prev.pre.dst.kind = "dir"
    /\ last.path = "already" /\ last.file = prev.file
    /\ Now(last).bak = prev.pre.dst

\* C2 No-op purity: when the source exists and the destination is already a
\* symlink whose stored target is the canonical source, create_symlink
\* returns True (and the batch loop continues) without prompting and with
\* destination, backup slot and backup-of-backup slot unchanged.
C2_NoOpPurity ==
    ( /\ last.file # "none" /\ srcExists[last.file]
      /\ last.pre.dst = Link(Canon(last.file)) )
    => /\ last.path \in {"already", "skipped"}
       /\ last.ret \in {"True", "continue"}
       /\ last.failed = {}
       /\ ~last.prompted
       /\ last.reports = <<"success">>
       /\ Now(last) = last.pre

C2_Witness ==
    /\ last.path = "already" /\ prev.path = "none"
    /\ last.pre.bak.kind = "file" /\ Now(last).bak = last.pre.bak

\* C3 Canonical comparison: a destination symlink that resolves to the
\* canonical source, however its target is spelled, is treated as correct
\* and is neither backed up nor replaced.
C3_CanonicalComparison ==
    ( /\ last.file # "none" /\ srcExists[last.file]
      /\ last.pre.dst.kind = "link"
      /\ resolve(last.pre.dst.tgt) = Canon(last.file) )
    => /\ last.path \in {"already", "skipped"}
       /\ Now(last) = last.pre

\* C4 Backup non-nesting: no X.bak.bak ever exists, and whenever a call with
\* backup enabled displaced an existing destination and did not put it back,
\* X.bak holds exactly what was at X before the call, whatever X.bak held.
C4_BackupNonNesting ==
    /\ \A file \in Files : Slots(fs, file).bakbak = Absent
    /\ ( /\ IsCall(last) /\ last.backup
         /\ last.pre.dst.kind # "absent"
         /\ last.path \in {"created", "link_failed"}
         /\ ~last.restored )
       => Now(last).bak = last.pre.dst

C4_Witness ==
    /\ last.path = "created" /\ last.backup
    /\ last.pre.bak.kind = "dir" /\ last.pre.bak.ents # {}
    /\ last.pre.dst.kind = "file"
    /\ Now(last).bak = last.pre.dst

\* C5 Restore-on-failure: when an existing destination was renamed into the
\* backup slot and the link creation then failed (the restoring rename
\* itself not failing), the destination holds its pre-call content again,
\* the backup slot is empty and the call returns False.
C5_RestoreOnFailure ==
    ( /\ IsCall(last) /\ last.backup
      /\ last.pre.dst.kind # "absent"
      /\ "symlink" \in last.failed /\ "restore" \notin last.failed )
    => /\ last.ret = "False"
       /\ Now(last).dst = last.pre.dst
       /\ Now(last).bak = Absent

\* C6 Destination integrity: whenever create_symlink returns, unless both
\* the link creation and the restore failed, the destination is its
\* pre-call content or a symlink to the canonical source.
C6_DestinationIntegrity ==
    ( /\ IsCall(last) /\ last.ret \in {"True", "False"}
      /\ ~({"symlink", "restore"} \subseteq last.failed) )
    => \/ Now(last).dst = last.pre.dst
       \/ Now(last).dst = Link(Canon(last.file))

\* C7 No fault escapes the reconciler: every create_symlink call returns a
\* boolean and has reported through the printer, whatever operation failed.
C7_NoFaultEscapes ==
    IsCall(last) => /\ last.ret \in {"True", "False"}
                    /\ last.reports # <<>>
                    /\ ("restore" \in last.failed => last.ret = "False")

\* C8 Source missing: when the resolved source does not exist, create_symlink
\* returns False, reports an error and leaves destination and backup slots
\* as they were, whatever the destination held.
C8_SourceMissing ==
    (IsCall(last) /\ ~srcExists[last.file])
    => /\ last.ret = "False"
       /\ last.path = "source_missing"
       /\ last.failed = {}
       /\ last.reports[Len(last.reports)] = "error"
       /\ Now(last) = last.pre

C8_Witness ==
    /\ last.path = "source_missing"
    /\ last.pre.dst.kind = "file" /\ last.pre.bak.kind = "dir"
    /\ Now(last) = last.pre

\* C9 Destination not clear: when a step of backing up or removing the
\* existing destination fails, create_symlink returns False without
\* attempting the link and the destination is exactly as it was found.
C9_DestinationNotClear ==
    (IsCall(last) /\ last.failed \cap {"rotate", "rename", "remove"} # {})
    => /\ last.ret = "False"
       /\ last.path = "not_clear"
       /\ "symlink" \notin last.failed
       /\ Now(last).dst = last.pre.dst

\* C10 Best-effort batch: a batch attempts every mapping in input order even
\* after a failure and returns True exactly when no mapping failed; when only
\* the second of the three fails, the first and third destinations end as
\* correct links.
Failed(i) == attempts[i].ret \in {"False", "raise"}

C10_BestEffortBatch ==
    /\ fn # "none" =>
          /\ Len(attempts) <= Len(files_to_symlink)
          /\ \A i \in 1..Len(attempts) : attempts[i].file = files_to_symlink[i]
    /\ (fn # "none" /\ pc # "loop") =>
          /\ result # "none"
          /\ Len(attempts) = Len(files_to_symlink)
          /\ (result = "True") = (\A i \in 1..Len(attempts) : ~Failed(i))
          /\ (Failed(2) /\ ~Failed(1) /\ ~Failed(3)) =>
                /\ result = "False"
                /\ \A i \in {1, 3} :
                      fs[dest_path(files_to_symlink[i])]
                         = Link(Canon(files_to_symlink[i]))

\* C11 Confirmation default: the warning is printed exactly when a prompt
\* hit end of input; the mapping is then reconciled with backup enabled, so
\* that with an existing source and no fault the destination becomes the
\* link, the content found there is in the backup slot, and the batch goes
\* on to the next mapping (or returns after the last one).
Warned(c) == c.reports # <<>> /\ Head(c.reports) = "warning"

Conflict(c) ==
    c.pre.dst.kind # "absent" /\ c.pre.dst # Link(Canon(c.file))

C12_SuccessfulReconciliation ==
    ( /\ IsCall(last) /\ last.clean
      /\ srcExists[last.file]
      /\ ~parent_missing(dest_path(last.file))
      /\ last.pre.dst # Link(Target("abs", last.file)) )
    => /\ last.ret = "True" /\ last.path = "created"
       /\ last.failed = {}
       /\ Now(last).dst = Link(Target("abs", last.file))
       /\ (last.backup /\ last.pre.dst.kind # "absent")
             => Now(last).bak = last.pre.dst

C12_Witness ==
    /\ last.path = "created" /\ last.ret = "True" /\ last.backup
    /\ last.clean
    /\ last.pre.dst = Link(Target("abs", "gone"))
    /\ last.pre.bak.kind = "file"
    /\ Now(last).dst = Link(Target("abs", last.file))
    /\ Now(last).bak = last.pre.dst

\* C13 Parent directory creation: in a batch, the parent directory of a
\* mapping's destination exists when create_symlink is invoked for it, so
\* the link never fails for want of the parent.
C13_ParentDirectoryCreation ==
    /\ fn = "config" => config_dir
    /\ (IsCall(last) /\ fn # "none") => ~parent_missing(dest_path(last.file))

\* C14 Exit code: when main has returned, its exit code is 1 whenever a step
\* of run returned False or raised, in particular when the symlink batch
\* returned False or raised; it is 0 only if all the steps of run, in order,
\* returned True.
StepFailed(i) == ran[i] \in {"False", "raise"}

C14_ExitCode ==
    /\ exit_code = 0 =>
          /\ Len(ran) = Len(run_steps)
          /\ \A i \in 1..Len(ran) : ran[i] = "True"
    /\ pc = "exited" =>
          /\ exit_code \in {0, 1}
          /\ (\E i \in 1..Len(ran) : StepFailed(i)) => exit_code = 1
          /\ (fn = "dotfiles" /\ result # "True") =>
                /\ exit_code = 1
                /\ Len(ran) = ConfigStep
                /\ ran[ConfigStep] = IF result = "False" THEN "False" ELSE "raise"
    /\ \A i \in 1..Len(ran) :
          (i < Len(ran) => ran[i] = "True") /\ ran[i] \in StepOutcomes(run_steps[i])

C14_Witness ==
    /\ pc = "exited" /\ exit_code = 1
    /\ fn = "dotfiles" /\ result = "False"
    /\ ran = Append(Trues(ConfigStep - 1), "False")

\* C15 Confirmation only for conflicts: in a batch the user is prompted for a
\* mapping exactly when something other than the correct link is at its
\* destination; for an absent destination or a correct link there is no
\* prompt and nothing is moved into the backup slot.
C15_PromptOnlyForConflicts ==
    (last.file # "none" /\ fn # "none")
    => /\ last.prompted <=> Conflict(last)
       /\ ~Conflict(last) =>
             /\ Now(last).bak \in {last.pre.bak, Absent}
             /\ last.pre.dst.kind # "absent" => Now(last) = last.pre

C15_Witness ==
    /\ fn # "none" /\ last.prompted
    /\ last.pre.dst = Link(Target("abs", "gone"))
    /\ prev.file # "none" /\ ~prev.prompted /\ prev.pre.dst.kind = "absent"

\* C16 Symlinks are never followed when clearing: the directory that a
\* destination or backup-slot symlink points to keeps all its entries; a
\* destination that is such a link is moved into the backup slot as the link
\* it is, or removed as a link, and a failed removal of it or of such a link
\* in the backup slot leaves that link in place.
ToOtherDir(n) == n.kind = "link" /\ n.tgt.to = "otherdir"

C16_SymlinksNotFollowed ==
    /\ fs[other_dir] = Dir(1..MaxEntries)
    /\ (IsCall(last) /\ ToOtherDir(last.pre.dst)) =>
          /\ (last.path = "created" /\ last.backup) => Now(last).bak = last.pre.dst
          /\ (last.path = "created" /\ ~last.backup) => Now(last).bak = last.pre.bak
          /\ last.failed = {"remove"} => Now(last) = last.pre
    /\ (IsCall(last) /\ ToOtherDir(last.pre.bak) /\ last.failed = {"rotate"})
          => Now(last) = last.pre

C16_Witness ==
    /\ last.path = "created" /\ ~last.backup
    /\ ToOtherDir(last.pre.dst) /\ ToOtherDir(last.pre.bak)
    /\ Now(last).dst = Link(Canon(last.file))
    /\ Now(last).bak = last.pre.bak
    /\ fs[other_dir] = Dir(1..MaxEntries)

\* C17 Restore only for a backup made in the same call: when the destination
\* was absent at the start of create_symlink and the symlink creation fails,
\* the destination stays absent and the backup slot is as it was.
C17_RestoreOnlySameCall ==
    (IsCall(last) /\ last.pre.dst.kind = "absent" /\ "symlink" \in last.failed)
    => /\ Now(last).dst = Absent
       /\ Now(last).bak = last.pre.bak

\* C18 Outcome matches the filesystem: a create_symlink call that returned
\* True leaves the destination a symlink whose stored target is the resolved
\* source, and a call that returned False made at least one error report.
C18_OutcomeMatchesFilesystem ==
    IsCall(last) =>
       /\ last.ret = "True" => Now(last).dst = Link(Canon(last.file))
       /\ last.ret = "False" =>
             \E i \in 1..Len(last.reports) : last.reports[i] = "error"

C18_Witness ==
    /\ IsCall(last) /\ last.ret = "True" /\ last.path = "created"
    /\ Now(last).dst = Link(Canon(last.file))
    /\ IsCall(prev) /\ prev.ret = "False" /\ prev.path = "link_failed"
    /\ \E i \in 1..Len(prev.reports) : prev.reports[i] = "error"

\* C19 as stated: a create_symlink call with backup enabled that returned
\* False because the rename into the backup slot failed, or because the
\* symlink creation failed and the backup was restored, leaves the backup
\* slot holding what it held before the call.
C19_EarlierBackupKept ==
    (IsCall(last) /\ last.backup /\ last.ret = "False"
        /\ (last.failed = {"rename"} \/ last.restored))
    => Now(last).bak = last.pre.bak

\* C19 amended: a failed create_symlink call with backup enabled keeps an
\* earlier backup only when it fails before the rotation has removed it: the
\* source is missing, or the removal of the old backup itself fails (a
\* directory backup may then have lost entries). When the rename into the
\* backup slot fails, or the symlink creation fails and the backup is
\* restored, the backup slot is empty after the call.
C19_EarlierBackupLostAfterRotation ==
    (IsCall(last) /\ last.backup /\ last.ret = "False"
        /\ last.pre.bak.kind # "absent")
    => /\ last.path = "source_missing" => Now(last) = last.pre
       /\ (last.failed = {"rotate"} /\ last.pre.bak.kind # "dir")
             => Now(last) = last.pre
       /\ (last.failed = {"rotate"} /\ last.pre.bak.kind = "dir")
             => /\ Now(last).bak.kind = "dir"
                /\ Now(last).bak.ents \subseteq last.pre.bak.ents
                /\ Now(last).dst = last.pre.dst
       /\ (last.failed = {"rename"} \/ last.restored)
             => Now(last).bak = Absent

C19_Witness ==
    /\ IsCall(last) /\ last.backup /\ last.ret = "False" /\ last.restored
    /\ last.pre.bak.kind = "file" /\ last.pre.dst.kind = "file"
    /\ last.pre.bak # last.pre.dst
    /\ Now(last).bak = Absent
    /\ Now(last).dst = last.pre.dst

====
